---- MODULE Spec2Model ----
(***************************************************************************)
(* BF.js: the three interpreters of the repository as one state machine.   *)
(*                                                                         *)
(*   impl = "BFInterpreterState"  the BFInterpreter whose Interpret()      *)
(*                                 builds a BFInterpreterState per call     *)
(*                                 (src/unnamed/part_000, lines 261-547)    *)
(*   impl = "BFInterpreter"       the BFInterpreter that keeps the tape,    *)
(*                                 the pointers and the loop stack as       *)
(*                                 instance fields                          *)
(*                                 (src/unnamed/part_000, lines 1-260)      *)
(*   impl = "BF"                  the function BF(code, opts) of src/bf.js  *)
(*                                                                         *)
(* One step of the model is one iteration of the interpreter's for loop,   *)
(* or one of the calls Interpret() makes after the loop.                   *)
(***************************************************************************)
EXTENDS Integers, Sequences, FiniteSets, TLC

VARIABLES
    impl,              \* which of the three interpreters this instance is
    code,              \* the script, a sequence of one-character strings
    options,           \* MemoryWords, StdIn, OutputElement, Quiet, CompleteCallback
    memoryPointer,     \* data pointer (mem_index in bf.js)
    memory,            \* the tape: a JavaScript array, own keys -> values
    stdInPointer,      \* input cursor (stdin_index in bf.js)
    loopStartIndices,  \* stack of "[" positions, top last
    i,                 \* instruction pointer of the for loop (0-based)
    stdOut,            \* output accumulator, a sequence of UTF-16 code units
    pc,                \* where the current call is; "idle" between calls
    calls,             \* number of Interpret() / BF() calls started
    steps,             \* loop iterations executed by the current call
    reads,             \* "," instructions executed by the current call
    closedOnEmpty,     \* the current call executed a "]" on an empty stack
    entry,             \* the interpreter state the current call started on
    outcome,           \* one record per finished call: returned or thrown
    console,           \* console.log calls, <<call, text>>
    element,           \* divs appended to the output element, <<call, text>>
    callback           \* CompleteCallback invocations, <<call, argument>>

vars == <<impl, code, options, memoryPointer, memory, stdInPointer,
          loopStartIndices, i, stdOut, pc, calls, steps, reads, closedOnEmpty,
          entry, outcome, console, element, callback>>

(***************************************************************************)
(* Bounds of the model.                                                    *)
(***************************************************************************)
MaxCode == 3        \* every script up to this length is explored
MaxStdIn == 1       \* ... on every input string up to this length
MaxWords == 2       \* ... with MemoryWords in 1 .. MaxWords
MaxCalls == 2       \* Interpret() calls on one instance
MaxSteps == 70      \* loop iterations followed per call

(***************************************************************************)
(* JavaScript values held by a tape cell: a number, NaN, or undefined      *)
(* (what reading an index the array does not own gives).                   *)
(***************************************************************************)
Num(n) == <<"number", n>>
NaN == <<"NaN", 0>>
Undefined == <<"undefined", 0>>
IsNum(v) == v[1] = "number"

\* v + amount, v++ and v-- on a cell: undefined and NaN both give NaN.
Plus(v, amount) == IF IsNum(v) THEN Num(v[2] + amount) ELSE NaN

\* v === 0
StrictEqualsZero(v) == v = Num(0)

\* v || 0: NaN, undefined and 0 are falsy.
OrZero(v) == IF IsNum(v) /\ v[2] # 0 THEN v ELSE Num(0)

\* String.fromCharCode(v): ToUint16, so NaN and undefined give code unit 0.
FromCharCode(v) == IF IsNum(v) THEN v[2] % 65536 ELSE 0

\* charCodeAt reading one position too far.
CharCodeAtNext(s, idx) ==
    IF idx + 1 >= 0 /\ idx + 1 < Len(s) THEN Num(s[idx + 2]) ELSE NaN

\* s.charCodeAt(idx): the code unit at idx, NaN outside the string.
CharCodeAt(s, idx) == IF idx >= 0 /\ idx < Len(s) THEN Num(s[idx + 1]) ELSE NaN

(***************************************************************************)
(* The tape as a JavaScript array: a function from the keys it owns.       *)
(***************************************************************************)
SetMax(S) == CHOOSE x \in S : \A y \in S : y <= x

\* array.length: one more than the largest index owned (negative keys are
\* plain properties and do not count).  An array without holes owns
\* 0 .. n - 1 and its length is n.
Length(m) == LET idx == {k \in DOMAIN m : k >= 0}
                 n == Cardinality(idx)
             IN IF idx = 0 .. (n - 1) THEN n ELSE SetMax(idx) + 1

\* m[k]
Get(m, k) == IF k \in DOMAIN m THEN m[k] ELSE Undefined

\* m[k] = v
Put(m, k, v) ==
    IF k \in DOMAIN m THEN [m EXCEPT ![k] = v]
    ELSE [j \in (DOMAIN m) \cup {k} |-> IF j = k THEN v ELSE m[j]]

\* new Array(n).fill(0); the push loop of bf.js
InitializeMemory(memoryWords) == [k \in 0 .. (memoryWords - 1) |-> Num(0)]

\* public MemoryWords: number = 30000
DefaultMemoryWords == 30000

(***************************************************************************)
(* Scripts, inputs and options.                                            *)
(***************************************************************************)
Instructions == {">", "<", "+", "-", ".", ",", "[", "]"}

\* "x" stands for any character outside the instruction set.
Alphabet == Instructions \cup {"x"}

SeqsUpTo(S, n) == UNION {[1 .. k -> S] : k \in 0 .. n}

\* Input characters: NUL and "A".
InputChars == {0, 65}

HasRead(c) == \E k \in 1 .. Len(c) : c[k] = ","

HasMove(c) == \E k \in 1 .. Len(c) : c[k] \in {">", "<"}

\* The runs <<script, StdIn, MemoryWords>> of every script up to length n.
\* A script without "," never looks at StdIn and is run on "" only; a
\* script without ">" and "<" never leaves cell 0 and is run on a tape of
\* one cell only.
Runs(n) ==
    {r \in SeqsUpTo(Alphabet, n) \X SeqsUpTo(InputChars, MaxStdIn) \X (1 .. MaxWords) :
        /\ HasRead(r[1]) \/ r[2] = <<>>
        /\ HasMove(r[1]) \/ r[3] = 1}

\* The script of n "+".
Pluses(n) == [k \in 1 .. n |-> "+"]

\* The examples of the specification, and runs longer than the bounds.
Examples ==
    { << <<"+", ">", "+", ">", "+", ">">>, <<>>, 3 >>,
      << <<"+", "+", "[", ">", "+", "+", "<", "-", "]", ">", ".">>, <<>>, 3 >>,
      << <<"+", "[", ">", "+", "+", "<", "-", "]", ">", ".">>, <<>>, 2 >>,
      << <<"+", "+", "+", "[", ">", "+", "+", "<", "-", "]", ">", ".">>, <<>>, 2 >>,
      << Pluses(65) \o <<".">>, <<>>, 1 >>,
      << <<"+", "[", "[", "-", "]", "]">>, <<>>, 1 >>,
      << <<"+", "[", ">", "+", "+", "[", "-", "]", "<", "-", "]">>, <<>>, 2 >>,
      << <<",", "+", ".">>, <<255>>, 1 >>,
      << <<",", "+", ".">>, <<65535>>, 1 >>,
      << <<",", ".", ",", ".">>, <<65, 0>>, 1 >>,
      << <<",", ".", ",", ".">>, <<0, 65>>, 1 >>,
      << <<",", ".", ",", ".">>, <<65, 65>>, 1 >>,
      << <<",", ".", ",", ".">>, <<65>>, 1 >>,
      << <<",", "[", ".", ",", "]">>, <<65, 65>>, 1 >>,
      << <<">", "+", ">", "+">>, <<>>, 1 >>,
      << <<"+", "[", "-", "]", ".">>, <<>>, 1 >>,
      << <<"+", ".", "<", ".">>, <<>>, 1 >>,
      << <<"+", ".", "x", ".">>, <<>>, 1 >> }

Impls == {"BFInterpreterState", "BFInterpreter", "BF"}

\* The options of a run: OutputElement and CompleteCallback are TRUE when
\* set and FALSE when null (opts.id undefined in bf.js).
BFInterpreterOptions(words, stdin, elem, quiet, cb) ==
    [MemoryWords |-> words, StdIn |-> stdin, OutputElement |-> elem,
     Quiet |-> quiet, CompleteCallback |-> cb]

(***************************************************************************)
(* Construction.  new BFInterpreter(code, options) of the instance-state   *)
(* class fills its tape in the constructor; the other two have no          *)
(* interpreter state before a call.                                        *)
(***************************************************************************)
InitWith(runs, elems, quiets, cbs) ==
    /\ impl \in Impls
    /\ \E r \in runs, elem \in elems, quiet \in quiets, cb \in cbs :
          /\ code = r[1]
          /\ options = BFInterpreterOptions(r[3], r[2], elem, quiet, cb)
    /\ memoryPointer = 0
    /\ memory = IF impl = "BFInterpreter"
                THEN InitializeMemory(options.MemoryWords)
                ELSE <<>>
    /\ stdInPointer = 0
    /\ loopStartIndices = <<>>
    /\ i = 0
    /\ stdOut = <<>>
    /\ pc = "idle"
    /\ calls = 0
    /\ steps = 0
    /\ reads = 0
    /\ closedOnEmpty = FALSE
    /\ entry = [memoryPointer |-> memoryPointer, memory |-> memory,
                stdInPointer |-> 0, loopStartIndices |-> <<>>]
    /\ outcome = <<>>
    /\ console = <<>>
    /\ element = <<>>
    /\ callback = <<>>

\* Every script up to MaxCode, and the examples, under the default output
\* options.
InitEngine == InitWith(Runs(MaxCode) \cup Examples, {FALSE}, {FALSE}, {FALSE})

\* Every script shorter than MaxCode under every combination of the output
\* options.
InitOutput == InitWith(Runs(MaxCode - 1), BOOLEAN, BOOLEAN, BOOLEAN)

\* Every script shorter than MaxCode, and the examples, under the default
\* output options.
InitShort == InitWith(Runs(MaxCode - 1) \cup Examples, {FALSE}, {FALSE}, {FALSE})

Init == InitEngine \/ InitOutput

(***************************************************************************)
(* Outcomes of a call.                                                     *)
(***************************************************************************)
Returned(out) ==
    [kind |-> "returned", stdOut |-> out, char |-> "", location |-> -1]

\* throw new Error(`Invalid character '${code[i]}' at location ${i}`)
InvalidInstructionError(c, at) ==
    [kind |-> "InvalidInstructionError", stdOut |-> <<>>, char |-> c,
     location |-> at]

\* throw new Error("Memory pointer cannot be less than 0 ..." /
\*                 "Memory pointer cannot be greater than ...")
PointerRangeError ==
    [kind |-> "PointerRangeError", stdOut |-> <<>>, char |-> "",
     location |-> -1]

NoError == [kind |-> "none", stdOut |-> <<>>, char |-> "", location |-> -1]

TS == impl \in {"BFInterpreterState", "BFInterpreter"}

(***************************************************************************)
(* The interpreter state and its methods, as functions of the state s =    *)
(* [memoryPointer, memory, stdInPointer, loopStartIndices].  im names the  *)
(* interpreter; the methods are given StdIn and MemoryWords and no other   *)
(* option.                                                                 *)
(***************************************************************************)
\* new BFInterpreterState(options); the fields of BFInterpreter after its
\* constructor; the locals of BF() before its loop.
BFInterpreterState(memoryWords) ==
    [memoryPointer |-> 0, memory |-> InitializeMemory(memoryWords),
     stdInPointer |-> 0, loopStartIndices |-> <<>>]

\* bf.js: opts.memory || 30000
BFMemSize(memoryWords) ==
    IF memoryWords = 0 THEN DefaultMemoryWords ELSE memoryWords

\* BFInterpreterState.MoveMemoryPointer: the two range tests, made on the
\* pointer p already moved.
StateRangeError(s, p) == p < 0 \/ p > Length(s.memory)

\* BFInterpreter.MoveMemoryPointer of the instance-state class.
InstanceRangeError(memoryWords, p) == p < 0 \/ p > memoryWords

\* bf.js: mem_index ++ and mem_index -- are not tested.
BFRangeError(p) == FALSE

RangeError(im, memoryWords, s, p) ==
    CASE im = "BFInterpreterState" -> StateRangeError(s, p)
      [] im = "BFInterpreter" -> InstanceRangeError(memoryWords, p)
      [] im = "BF" -> BFRangeError(p)

\* The state after the move (the pointer is moved before the tests) and
\* whether the move throws.
MoveMemoryPointer(im, memoryWords, s, forward) ==
    LET p == s.memoryPointer + forward
    IN [state |-> [s EXCEPT !.memoryPointer = p],
        thrown |-> RangeError(im, memoryWords, s, p)]

\* IncrementMemoryLocation on 8-bit cells: the sum wraps around at 256.
IncrementMemoryLocationByte(s, amount) ==
    LET v == Get(s.memory, s.memoryPointer)
    IN [s EXCEPT !.memory =
           Put(s.memory, s.memoryPointer,
               IF IsNum(v) THEN Num((v[2] + amount) % 256) ELSE NaN)]

\* this.memory[this.memoryPointer] += amount
IncrementMemoryLocation(s, amount) ==
    [s EXCEPT !.memory = Put(s.memory, s.memoryPointer,
                             Plus(Get(s.memory, s.memoryPointer), amount))]

\* BFInterpreterState.ReadCharFromStdIn, the value stored for char code c.
\* The test charCode === NaN is false for every value, NaN included, so
\* the assignment charCode = 0 is never made.
StateCharCode(c) == c

\* BFCharCode keeping the low seven bits of the character only.
BFCharCodeSevenBit(c) == IF IsNum(c) THEN Num(c[2] % 128) ELSE Num(0)

\* bf.js: stdin.charCodeAt(stdin_index++) || 0
BFCharCode(c) == OrZero(c)

ReadCharFromStdIn(im, stdIn, s) ==
    LET c == CharCodeAt(stdIn, s.stdInPointer)
        charCode == IF im = "BF" THEN BFCharCode(c) ELSE StateCharCode(c)
    IN [s EXCEPT !.stdInPointer = s.stdInPointer + 1,
                 !.memory = Put(s.memory, s.memoryPointer, charCode)]

\* String.fromCharCode(this.memory[this.memoryPointer])
GetCharForStdOut(s) == FromCharCode(Get(s.memory, s.memoryPointer))

\* IsMemoryLocationZero answering true for every cell: "]" never jumps back.
IsMemoryLocationAlwaysZero(s) == TRUE

\* this.memory[this.memoryPointer] === 0
IsMemoryLocationZero(s) == StrictEqualsZero(Get(s.memory, s.memoryPointer))

\* BeginNewLoop that looks at the current cell and enters the loop only
\* when it is not zero.
BeginNewLoopUnlessZero(s, scriptIndex) ==
    IF IsMemoryLocationZero(s) THEN s
    ELSE [s EXCEPT !.loopStartIndices = Append(s.loopStartIndices, scriptIndex)]

\* this.loopStartIndices.push(scriptIndex)
BeginNewLoop(s, scriptIndex) ==
    [s EXCEPT !.loopStartIndices = Append(s.loopStartIndices, scriptIndex)]

\* EndLoop leaving every loop at once: the whole stack is dropped.
EndLoopClearsStack(s) == [s EXCEPT !.loopStartIndices = <<>>]

\* EndLoop without the pop.
EndLoopKeepsTop(s) == s

\* this.loopStartIndices.pop(): nothing happens on an empty array.
EndLoop(s) ==
    [s EXCEPT !.loopStartIndices =
        IF s.loopStartIndices = <<>> THEN <<>>
        ELSE SubSeq(s.loopStartIndices, 1, Len(s.loopStartIndices) - 1)]

\* Whether this.loopStartIndices[this.loopStartIndices.length - 1] is a
\* number; it is undefined on an empty array.
PeekDefined(s) == s.loopStartIndices # <<>>

PeekLoopStartIndices(s) == s.loopStartIndices[Len(s.loopStartIndices)]

\* default: of the switch throws; the if chain of bf.js has no else branch
\* and goes on to the next character.
DefaultThrows(im) == im # "BF"

(***************************************************************************)
(* One iteration of the for loop of InterpretInternal / BF, on the loop    *)
(* record L = [state, i, stdOut, status, error]: the switch, then i ++ and *)
(* the test i < code.length.  status is "loop" while the loop runs,        *)
(* "done" when it has ended and "thrown" when an exception left it.        *)
(***************************************************************************)
\* Continue without the i ++ of the for statement: the same instruction is
\* executed again.
ContinueInPlace(c, L, s, next, out) ==
    [state |-> s, i |-> L.i, stdOut |-> out, status |-> "loop", error |-> NoError]

\* break, then i ++ and the loop test
Continue(c, L, s, next, out) ==
    [state |-> s, i |-> next, stdOut |-> out,
     status |-> IF next < Len(c) THEN "loop" ELSE "done", error |-> NoError]

\* An exception leaves the loop, InterpretInternal and Interpret at once.
Throw(L, s, err) ==
    [state |-> s, i |-> L.i, stdOut |-> L.stdOut, status |-> "thrown",
     error |-> err]

\* Jump landing on the "[" itself, which is then executed and pushed again.
JumpOntoLoopStart(c, L) ==
    IF PeekDefined(L.state)
    THEN Continue(c, L, L.state, PeekLoopStartIndices(L.state), L.stdOut)
    ELSE [state |-> L.state, i |-> L.i, stdOut |-> L.stdOut,
          status |-> "done", error |-> NoError]

\* i = state.PeekLoopStartIndices(), then i ++.  On an empty stack the peek
\* is undefined, i ++ makes it NaN and the test NaN < code.length ends the
\* loop; the record keeps the position of the "]".
Jump(c, L) ==
    IF PeekDefined(L.state)
    THEN Continue(c, L, L.state, PeekLoopStartIndices(L.state) + 1, L.stdOut)
    ELSE [state |-> L.state, i |-> L.i, stdOut |-> L.stdOut,
          status |-> "done", error |-> NoError]

Iteration(im, c, stdIn, memoryWords, L) ==
    LET tok == c[L.i + 1]
        s == L.state
        next == L.i + 1
    IN CASE tok = ">" ->
              LET m == MoveMemoryPointer(im, memoryWords, s, 1)
              IN IF m.thrown THEN Throw(L, m.state, PointerRangeError)
                 ELSE Continue(c, L, m.state, next, L.stdOut)
         [] tok = "<" ->
              LET m == MoveMemoryPointer(im, memoryWords, s, -1)
              IN IF m.thrown THEN Throw(L, m.state, PointerRangeError)
                 ELSE Continue(c, L, m.state, next, L.stdOut)
         [] tok = "+" ->
              Continue(c, L, IncrementMemoryLocation(s, 1), next, L.stdOut)
         [] tok = "-" ->
              Continue(c, L, IncrementMemoryLocation(s, -1), next, L.stdOut)
         [] tok = "." ->
              Continue(c, L, s, next, Append(L.stdOut, GetCharForStdOut(s)))
         [] tok = "," ->
              Continue(c, L, ReadCharFromStdIn(im, stdIn, s), next, L.stdOut)
         [] tok = "[" ->
              Continue(c, L, BeginNewLoop(s, L.i), next, L.stdOut)
         [] tok = "]" ->
              IF IsMemoryLocationZero(s)
              THEN Continue(c, L, EndLoop(s), next, L.stdOut)
              ELSE Jump(c, L)
         [] OTHER ->
              IF DefaultThrows(im)
              THEN Throw(L, s, InvalidInstructionError(tok, L.i))
              ELSE Continue(c, L, s, next, L.stdOut)

\* let stdOut = ""; for (let i = 0; i < code.length; ...
LoopEntry(c, s) ==
    [state |-> s, i |-> 0, stdOut |-> <<>>,
     status |-> IF 0 < Len(c) THEN "loop" ELSE "done", error |-> NoError]

\* InterpretInternal as a function: the loop record after at most fuel
\* iterations from L.
RECURSIVE InterpretInternal(_, _, _, _, _, _)
InterpretInternal(im, c, stdIn, memoryWords, L, fuel) ==
    IF L.status # "loop" \/ fuel = 0 THEN L
    ELSE InterpretInternal(im, c, stdIn, memoryWords,
                           Iteration(im, c, stdIn, memoryWords, L), fuel - 1)

(***************************************************************************)
(* The state machine.                                                      *)
(***************************************************************************)
\* The interpreter state the running call works on.
State ==
    [memoryPointer |-> memoryPointer, memory |-> memory,
     stdInPointer |-> stdInPointer, loopStartIndices |-> loopStartIndices]

Loop == [state |-> State, i |-> i, stdOut |-> stdOut, status |-> "loop",
         error |-> NoError]

\* Whether a call starts on a state of its own, built by the call: new
\* BFInterpreterState(this.options) and the locals of BF() are, the
\* instance fields of the instance-state BFInterpreter are not.
FreshStatePerCall(im) == im # "BFInterpreter"

\* The state a call starts on.
EntryState ==
    IF FreshStatePerCall(impl)
    THEN BFInterpreterState(IF impl = "BF" THEN BFMemSize(options.MemoryWords)
                            ELSE options.MemoryWords)
    ELSE State

\* PcOf with a try / catch around the loop: after an exception the call goes
\* on to render what the loop had produced.
PcOfCatching(L) == IF L.status = "loop" THEN "InterpretInternal" ELSE "WriteOutput"

\* Where control is for a loop record: in the loop, at the calls after it,
\* or out of Interpret() with the exception.
PcOf(L) == CASE L.status = "loop" -> "InterpretInternal"
             [] L.status = "done" -> "WriteOutput"
             [] L.status = "thrown" -> "idle"

SetLoop(L) ==
    /\ memoryPointer' = L.state.memoryPointer
    /\ memory' = L.state.memory
    /\ stdInPointer' = L.state.stdInPointer
    /\ loopStartIndices' = L.state.loopStartIndices
    /\ i' = L.i
    /\ stdOut' = L.stdOut
    /\ pc' = PcOf(L)
    /\ outcome' = IF L.status = "thrown" THEN Append(outcome, L.error)
                  ELSE outcome

\* Interpret() / BF(code, opts): the call, up to the first loop test.
Interpret ==
    /\ pc = "idle"
    /\ calls < MaxCalls
    /\ calls' = calls + 1
    /\ entry' = EntryState
    /\ SetLoop(LoopEntry(code, EntryState))
    /\ steps' = 0
    /\ reads' = 0
    /\ closedOnEmpty' = FALSE
    /\ UNCHANGED <<impl, code, options, console, element, callback>>

Running == pc = "InterpretInternal" /\ i < Len(code) /\ steps < MaxSteps

token == code[i + 1]

\* One iteration of the loop.
Execute ==
    /\ SetLoop(Iteration(impl, code, options.StdIn, options.MemoryWords, Loop))
    /\ steps' = steps + 1
    /\ reads' = IF token = "," THEN reads + 1 ELSE reads
    /\ closedOnEmpty' = (closedOnEmpty \/ (token = "]" /\ loopStartIndices = <<>>))
    /\ UNCHANGED <<impl, code, options, calls, entry, console, element, callback>>

\* case ">"
Right == Running /\ token = ">" /\ Execute

\* case "<"
Left == Running /\ token = "<" /\ Execute

\* case "+"
Increment == Running /\ token = "+" /\ Execute

\* case "-"
Decrement == Running /\ token = "-" /\ Execute

\* case "."
Write == Running /\ token = "." /\ Execute

\* case ","
Read == Running /\ token = "," /\ Execute

\* case "["
LoopOpen == Running /\ token = "[" /\ Execute

\* case "]", the current cell is zero
LoopCloseZero ==
    Running /\ token = "]" /\ IsMemoryLocationZero(State) /\ Execute

\* case "]", the current cell is not zero
LoopCloseNonZero ==
    Running /\ token = "]" /\ ~IsMemoryLocationZero(State) /\ Execute

\* default:
Default == Running /\ token \notin Instructions /\ Execute

(***************************************************************************)
(* After the loop: WriteOutput, OnComplete, return (BFInterpreter); the    *)
(* output block and return (bf.js).                                        *)
(***************************************************************************)
\* WriteOutputRenders without the test of Quiet.
WriteOutputRendersAlways == TRUE

\* BFInterpreter.WriteOutput: whether anything is rendered at all.
WriteOutputRenders == ~options.Quiet

\* bf.js: whether anything is rendered.  quiet is only looked at when no
\* element id is given.
BFRenders == options.OutputElement \/ ~options.Quiet

Renders == IF impl = "BF" THEN BFRenders ELSE WriteOutputRenders

\* console.log(stdOut) when there is no element; otherwise a div holding
\* the text is appended to the element.
WriteOutput ==
    /\ pc = "WriteOutput"
    /\ IF Renders /\ ~options.OutputElement
       THEN console' = Append(console, <<calls, stdOut>>)
       ELSE UNCHANGED console
    /\ IF Renders /\ options.OutputElement
       THEN element' = Append(element, <<calls, stdOut>>)
       ELSE UNCHANGED element
    /\ pc' = IF impl = "BF" THEN "return" ELSE "OnComplete"
    /\ UNCHANGED <<impl, code, options, memoryPointer, memory, stdInPointer,
                   loopStartIndices, i, stdOut, calls, steps, reads,
                   closedOnEmpty, entry,
                   outcome, callback>>

\* OnCompleteInvokes with the null test inverted.
OnCompleteInvokesWhenNull == ~options.CompleteCallback

\* BFInterpreter.OnComplete: whether the callback is invoked.
OnCompleteInvokes == options.CompleteCallback

OnComplete ==
    /\ pc = "OnComplete"
    /\ IF OnCompleteInvokes
       THEN callback' = Append(callback, <<calls, stdOut>>)
       ELSE UNCHANGED callback
    /\ pc' = "return"
    /\ UNCHANGED <<impl, code, options, memoryPointer, memory, stdInPointer,
                   loopStartIndices, i, stdOut, calls, steps, reads,
                   closedOnEmpty, entry,
                   outcome, console, element>>

\* return stdOut
Return ==
    /\ pc = "return"
    /\ outcome' = Append(outcome, Returned(stdOut))
    /\ pc' = "idle"
    /\ UNCHANGED <<impl, code, options, memoryPointer, memory, stdInPointer,
                   loopStartIndices, i, stdOut, calls, steps, reads,
                   closedOnEmpty, entry,
                   console, element, callback>>

Next ==
    \/ Interpret
    \/ Right
    \/ Left
    \/ Increment
    \/ Decrement
    \/ Write
    \/ Read
    \/ LoopOpen
    \/ LoopCloseZero
    \/ LoopCloseNonZero
    \/ Default
    \/ WriteOutput
    \/ OnComplete
    \/ Return

Spec == Init /\ [][Next]_vars

SpecEngine == InitEngine /\ [][Next]_vars

SpecOutput == InitOutput /\ [][Next]_vars

\* The steps of a call once started.  Interpret() is one synchronous
\* computation: a call that has begun keeps taking its next step.
RunStep ==
    \/ Right \/ Left \/ Increment \/ Decrement \/ Write \/ Read
    \/ LoopOpen \/ LoopCloseZero \/ LoopCloseNonZero \/ Default
    \/ WriteOutput \/ OnComplete \/ Return

SpecLive == InitShort /\ [][Next]_vars /\ WF_vars(RunStep)

TypeOK ==
    /\ impl \in Impls
    /\ pc \in {"idle", "InterpretInternal", "WriteOutput", "OnComplete", "return"}
    /\ calls \in 0 .. MaxCalls
    /\ steps \in 0 .. MaxSteps
    /\ Len(outcome) <= calls

(***************************************************************************)
(* Vocabulary of the claims.                                               *)
(***************************************************************************)
\* The entries of a log made by call c.
Tagged(log, c) == SelectSeq(log, LAMBDA e : e[1] = c)

Errors == {"InvalidInstructionError", "PointerRangeError"}

\* The call in progress has not failed.
InCall == pc # "idle"

\* The last call has finished.
Finished == pc = "idle" /\ calls >= 1 /\ Len(outcome) = calls

LastOutcome == outcome[Len(outcome)]

\* The step from this state ends the call with error kind k.
FailsWith(k) ==
    /\ pc' = "idle"
    /\ Len(outcome') = Len(outcome) + 1
    /\ outcome'[Len(outcome')].kind = k

(***************************************************************************)
(* C1.  For any MemoryWords = N, executing ">" with the data pointer at    *)
(* N - 1 fails with PointerRangeError (as the third ">" of "+>+>+>" must   *)
(* with MemoryWords = 3).                                                  *)
(***************************************************************************)
C1_RightAtLastCellFails ==
    [][(Running /\ token = ">" /\ memoryPointer = options.MemoryWords - 1)
          => FailsWith("PointerRangeError")]_vars

(***************************************************************************)
(* C2.  In the interpreter built on BFInterpreterState, "<" with the data   *)
(* pointer at 0, and ">" whose result would be above the configured word   *)
(* count, end the run with PointerRangeError: the run never continues past *)
(* such a move.                                                            *)
(***************************************************************************)
C2_MoveOutOfRangeFails ==
    [][(/\ impl = "BFInterpreterState"
        /\ Running
        /\ \/ token = "<" /\ memoryPointer = 0
           \/ token = ">" /\ memoryPointer + 1 > options.MemoryWords)
          => FailsWith("PointerRangeError")]_vars

(***************************************************************************)
(* C3.  While a run of the interpreter built on BFInterpreterState has not *)
(* failed, the data pointer is within 0 .. MemoryWords, MemoryWords being  *)
(* the configured word count.                                              *)
(***************************************************************************)
C3_PointerWithinConfiguredWords ==
    (impl = "BFInterpreterState" /\ InCall)
        => (memoryPointer >= 0 /\ memoryPointer <= options.MemoryWords)

(***************************************************************************)
(* C4.  "," executed with the input cursor at or past the end of the input *)
(* stores the integer 0 in the current cell, advances the cursor by one    *)
(* and raises no error.                                                    *)
(***************************************************************************)
C4_ExhaustedInputStoresZero ==
    [][(Running /\ token = "," /\ stdInPointer >= Len(options.StdIn))
          => /\ Get(memory', memoryPointer) = Num(0)
             /\ stdInPointer' = stdInPointer + 1
             /\ pc' # "idle"]_vars

(***************************************************************************)
(* C5.  Every call of Interpret() starts on an all-zero tape of MemoryWords *)
(* cells, data pointer 0, input cursor 0 and an empty loop-start stack; and *)
(* when the first call on an instance completes, a second call returns the  *)
(* same string.                                                             *)
(***************************************************************************)
C5_NoStateAcrossRuns ==
    /\ calls >= 1 => entry = BFInterpreterState(options.MemoryWords)
    /\ (Len(outcome) >= 2 /\ outcome[1].kind = "returned")
          => outcome[2] = outcome[1]

(***************************************************************************)
(* C6.  Reaching a character outside the instruction set fails the run with *)
(* InvalidInstructionError carrying that character and its position; no     *)
(* instruction after it is executed.                                        *)
(***************************************************************************)
C6_InvalidCharacterFails ==
    [][(Running /\ token \notin Instructions)
          => /\ pc' = "idle"
             /\ outcome' = Append(outcome, InvalidInstructionError(token, i))]_vars

(***************************************************************************)
(* C7.  A run that fails with InvalidInstructionError or PointerRangeError  *)
(* propagates out of Interpret(): the call has exactly one outcome, the     *)
(* error, which carries no output string; nothing is written to the console *)
(* or the element for that call and the callback is not invoked for it.     *)
(***************************************************************************)
C7_FailurePropagates ==
    /\ Len(outcome) = IF pc = "idle" THEN calls ELSE calls - 1
    /\ \A c \in 1 .. Len(outcome) :
          outcome[c].kind # "returned"
             => /\ outcome[c].kind \in Errors
                /\ outcome[c].stdOut = <<>>
                /\ Tagged(console, c) = <<>>
                /\ Tagged(element, c) = <<>>
                /\ Tagged(callback, c) = <<>>

\* A call on an interpreter that renders and has a callback failed after
\* it had produced output.
C7_Witness ==
    /\ TS /\ Finished
    /\ LastOutcome.kind \in Errors
    /\ stdOut # <<>>
    /\ ~options.Quiet /\ options.CompleteCallback

(***************************************************************************)
(* C8.  With CompleteCallback set, each completed Interpret() call invokes  *)
(* it exactly once, with the string the call returns, after the loop and    *)
(* the rendering step and before the return.  When CompleteCallback is null *)
(* it is never invoked.                                                     *)
(***************************************************************************)
C8_CallbackOncePerCompletedCall ==
    TS =>
      /\ \A c \in 1 .. Len(outcome) :
            outcome[c].kind = "returned"
               => Tagged(callback, c) =
                     IF options.CompleteCallback
                     THEN << <<c, outcome[c].stdOut>> >> ELSE <<>>
      /\ ~options.CompleteCallback => callback = <<>>
      /\ pc \in {"InterpretInternal", "WriteOutput", "OnComplete"}
            => Tagged(callback, calls) = <<>>
      /\ \A c \in 1 .. calls :
            (Tagged(callback, c) # <<>> /\ ~options.Quiet)
               => Tagged(console, c) \o Tagged(element, c) # <<>>
      /\ pc = "return" /\ options.CompleteCallback
            => Tagged(callback, calls) = << <<calls, stdOut>> >>

\* Two completed calls, the second with output, each followed by one
\* invocation of the callback.
C8_Witness ==
    /\ TS /\ Finished /\ calls = 2
    /\ options.CompleteCallback /\ ~options.Quiet
    /\ outcome[1].kind = "returned" /\ outcome[2].kind = "returned"
    /\ outcome[2].stdOut # <<>>
    /\ Len(callback) = 2

(***************************************************************************)
(* C9.  The string a completed call returns is the loop's output on the     *)
(* state the call started on, a function of the script, StdIn and           *)
(* MemoryWords alone: it does not depend on Quiet, OutputElement or         *)
(* CompleteCallback.                                                        *)
(***************************************************************************)
ReturnIgnoresOutputOptions ==
    (Finished /\ LastOutcome.kind = "returned")
       => LastOutcome.stdOut =
             InterpretInternal(impl, code, options.StdIn, options.MemoryWords,
                               LoopEntry(code, entry), MaxSteps).stdOut

(***************************************************************************)
(* C9, as claimed.  With Quiet set nothing is written to the console and    *)
(* nothing is appended to the output element, whether or not an element is  *)
(* configured, and the returned string does not depend on the output        *)
(* options.                                                                 *)
(***************************************************************************)
C9_QuietSilencesAll ==
    /\ options.Quiet => (console = <<>> /\ element = <<>>)
    /\ ReturnIgnoresOutputOptions

(***************************************************************************)
(* C9, amended.  With Quiet set BFInterpreter.Interpret() writes nothing to *)
(* the console and appends nothing to the element, whether or not one is    *)
(* configured; BF() of bf.js with quiet set writes nothing to the console   *)
(* but, given an element id, still appends one div holding the output per   *)
(* call; the returned string does not depend on the output options.         *)
(***************************************************************************)
C9_QuietSilencesInterpret ==
    /\ (TS /\ options.Quiet) => (console = <<>> /\ element = <<>>)
    /\ (impl = "BF" /\ options.Quiet) =>
          /\ console = <<>>
          /\ \A c \in 1 .. Len(outcome) :
                Tagged(element, c) =
                   IF options.OutputElement
                   THEN << <<c, outcome[c].stdOut>> >> ELSE <<>>
    /\ ReturnIgnoresOutputOptions

\* A quiet BFInterpreter with an output element has returned a non-empty
\* string.
C9_Witness ==
    /\ TS /\ Finished
    /\ options.Quiet /\ options.OutputElement
    /\ LastOutcome.kind = "returned"
    /\ LastOutcome.stdOut # <<>>

(***************************************************************************)
(* C10.  For every input string s, the script of |s| pairs ",." returns     *)
(* exactly s, on every call of BFInterpreter.Interpret() on a               *)
(* BFInterpreterState and of BF().                                          *)
(***************************************************************************)
IsCopyScript(c) ==
    /\ Len(c) % 2 = 0
    /\ \A k \in 1 .. Len(c) : c[k] = IF k % 2 = 1 THEN "," ELSE "."

C10_CopyReturnsInput ==
    (/\ impl \in {"BFInterpreterState", "BF"}
     /\ IsCopyScript(code) /\ Len(code) = 2 * Len(options.StdIn))
       => /\ \A c \in 1 .. Len(outcome) : outcome[c] = Returned(options.StdIn)
          /\ Len(outcome) = IF pc = "idle" THEN calls ELSE calls - 1

\* ",.,." has returned its two-character input twice.
C10_Witness ==
    /\ impl = "BFInterpreterState" /\ Finished /\ calls = 2
    /\ code = <<",", ".", ",", ".">> /\ options.StdIn = <<65, 0>>
    /\ outcome = <<Returned(<<65, 0>>), Returned(<<65, 0>>)>>

(***************************************************************************)
(* C11.  In BFInterpreter.Interpret() on a BFInterpreterState and in BF(),  *)
(* n >= 1 copies of "+" followed by "[>++<-]>." on a tape of at least two   *)
(* cells (the script uses cells 0 and 1 only, so the default tape of 30000  *)
(* cells behaves as these do) run the loop body exactly n times, leave cell *)
(* 0 at zero and return exactly one character, with code point 2n;          *)
(* "++[>++<-]>." returns the character with code point 4.                   *)
(***************************************************************************)
DoublingScript(n) ==
    Pluses(n) \o <<"[", ">", "+", "+", "<", "-", "]", ">", ".">>

IsDoublingScript(c) == Len(c) >= 10 /\ c = DoublingScript(Len(c) - 9)

\* The loop has ended and the call has not returned yet, or has returned.
AfterLoop == pc \in {"WriteOutput", "OnComplete", "return"} \/ Finished

\* n "+", one "[", n passes over the six instructions ">++<-]", then ">.".
DoublingSteps(n) == n + 1 + 6 * n + 2

C11_DoublingLoop ==
    (/\ impl \in {"BFInterpreterState", "BF"}
     /\ IsDoublingScript(code)
     /\ options.MemoryWords >= 2)
       => LET n == Len(code) - 9
          IN /\ \A c \in 1 .. Len(outcome) : outcome[c] = Returned(<<2 * n>>)
             /\ pc = "InterpretInternal" => steps < DoublingSteps(n)
             /\ AfterLoop => /\ steps = DoublingSteps(n)
                             /\ Get(memory, 0) = Num(0)
                             /\ stdOut = <<2 * n>>

\* "++[>++<-]>." has returned the character 4 twice.
C11_Witness ==
    /\ impl = "BFInterpreterState" /\ Finished /\ calls = 2
    /\ code = DoublingScript(2)
    /\ outcome = <<Returned(<<4>>), Returned(<<4>>)>>

\* Three passes of the loop have returned the character 6.
C11_WitnessThree ==
    /\ impl = "BF" /\ Finished
    /\ code = DoublingScript(3)
    /\ LastOutcome = Returned(<<6>>)

(***************************************************************************)
(* C12.  Vocabulary: the current cell, the scripts of N "+" and one ".",    *)
(* and the arithmetic of "+" and "-".                                       *)
(***************************************************************************)
CurrentCell == Get(memory, memoryPointer)

IsPlusesScript(c) == Len(c) >= 1 /\ c = Pluses(Len(c) - 1) \o <<".">>

\* The step ends a call of a script of N "+" and "." on an interpreter that
\* builds the tape for the call.
ReturnsFromPluses ==
    /\ impl \in {"BFInterpreterState", "BF"}
    /\ IsPlusesScript(code)
    /\ Len(outcome') = Len(outcome) + 1

\* "+" and "-" on a cell holding the integer v leave v + 1 and v - 1 there,
\* whatever v is, and the tape differs from the old one in that cell only.
ExactArithmetic ==
    (Running /\ token \in {"+", "-"})
       => /\ IsNum(CurrentCell)
             => Get(memory', memoryPointer) =
                   Num(CurrentCell[2] + (IF token = "+" THEN 1 ELSE -1))
          /\ memory' = Put(memory, memoryPointer, Get(memory', memoryPointer))

(***************************************************************************)
(* C12, as claimed.  The script of N "+" and "." returns exactly one        *)
(* character whose code point is N, for every N >= 0: "." on a cell that    *)
(* holds the integer N >= 0 appends the character with code point N; "+"    *)
(* adds exactly 1 and "-" subtracts exactly 1 without wraparound and change *)
(* no other cell.                                                           *)
(***************************************************************************)
C12_PlusesReturnN ==
    [][/\ ReturnsFromPluses => outcome'[Len(outcome')] = Returned(<<Len(code) - 1>>)
       /\ (Running /\ token = "." /\ IsNum(CurrentCell) /\ CurrentCell[2] >= 0)
             => stdOut' = Append(stdOut, CurrentCell[2])
       /\ ExactArithmetic]_vars

(***************************************************************************)
(* C12, amended.  The script of N "+" and "." returns exactly one character,*)
(* the UTF-16 code unit N mod 65536: "." on a cell that holds the integer v *)
(* appends the code unit v mod 65536; "+" adds exactly 1 and "-" subtracts  *)
(* exactly 1 with no 8-bit wraparound ("-" on 0 gives -1, "+" on 255 gives  *)
(* 256) and change no other cell.                                           *)
(***************************************************************************)
C12_PlusesReturnNMod65536 ==
    [][/\ ReturnsFromPluses
             => outcome'[Len(outcome')] = Returned(<<(Len(code) - 1) % 65536>>)
       /\ (Running /\ token = "." /\ IsNum(CurrentCell))
             => stdOut' = Append(stdOut, CurrentCell[2] % 65536)
       /\ ExactArithmetic]_vars

\* 65 "+" and "." have returned "A".
C12_WitnessA ==
    /\ impl = "BFInterpreterState" /\ Finished /\ calls = 2
    /\ code = Pluses(65) \o <<".">>
    /\ outcome = <<Returned(<<65>>), Returned(<<65>>)>>

\* "+" on a cell holding 255 has left 256 there, and "." has written it.
C12_Witness ==
    /\ Finished
    /\ code = <<",", "+", ".">> /\ options.StdIn = <<255>>
    /\ CurrentCell = Num(256)
    /\ LastOutcome = Returned(<<256>>)

(***************************************************************************)
(* C13.  "]" executed with a non-empty loop-start stack: when the current   *)
(* cell is zero the top of the stack is popped and execution continues with *)
(* the instruction after the "]"; otherwise the stack is left as it is and  *)
(* the next instruction executed is the one right after the "[" whose       *)
(* position is on top of the stack.  Nothing else changes and no error is   *)
(* raised.  (BFInterpreter.Interpret() on a BFInterpreterState, and BF().)  *)
(***************************************************************************)
Top(stack) == stack[Len(stack)]

Front(stack) == SubSeq(stack, 1, Len(stack) - 1)

C13_LoopClose ==
    [][(/\ impl \in {"BFInterpreterState", "BF"}
        /\ Running /\ token = "]" /\ loopStartIndices # <<>>)
          => /\ IF CurrentCell = Num(0)
                THEN /\ loopStartIndices' = Front(loopStartIndices)
                     /\ i' = i + 1
                     /\ pc' = IF i + 1 < Len(code) THEN "InterpretInternal"
                              ELSE "WriteOutput"
                ELSE /\ loopStartIndices' = loopStartIndices
                     /\ code[Top(loopStartIndices) + 1] = "["
                     /\ i' = Top(loopStartIndices) + 1
                     /\ pc' = "InterpretInternal"
             /\ UNCHANGED <<memory, memoryPointer, stdInPointer, stdOut, outcome>>]_vars

\* A "]" has jumped back at least once and the "]" just executed has popped
\* the last loop start.
C13_Witness ==
    /\ impl \in {"BFInterpreterState", "BF"}
    /\ pc = "InterpretInternal"
    /\ i >= 1 /\ code[i] = "]"
    /\ steps > i
    /\ loopStartIndices = <<>>
    /\ CurrentCell = Num(0)

(***************************************************************************)
(* C14.  Vocabulary: bracket structure of a script.  Positions are the      *)
(* 0-based script indices the interpreter uses.                             *)
(***************************************************************************)
\* "[" minus "]" among the first k characters.
Depth(c, k) ==
    Cardinality({j \in 1 .. k : c[j] = "["}) - Cardinality({j \in 1 .. k : c[j] = "]"})

Balanced(c) ==
    /\ Depth(c, Len(c)) = 0
    /\ \A k \in 0 .. Len(c) : Depth(c, k) >= 0

\* The "[" before position at that are not closed before it.
EnclosingSet(c, at) ==
    {p \in 0 .. (at - 1) :
        /\ c[p + 1] = "["
        /\ \A k \in (p + 1) .. at : Depth(c, k) > Depth(c, p)}

\* ... outermost first.
Enclosing(c, at) ==
    LET S == EnclosingSet(c, at)
    IN [k \in 1 .. Cardinality(S) |->
           CHOOSE p \in S : Cardinality({q \in S : q < p}) = k - 1]

\* The "[" matching the "]" at position at.
MatchingOpen(c, at) ==
    CHOOSE p \in 0 .. (at - 1) :
        /\ c[p + 1] = "["
        /\ Depth(c, p) = Depth(c, at + 1)
        /\ \A q \in (p + 1) .. (at - 1) : c[q + 1] = "[" => Depth(c, q) # Depth(c, p)

\* The call in progress started on the state a constructor builds.
FromFreshState == calls >= 1 /\ entry = BFInterpreterState(options.MemoryWords)

(***************************************************************************)
(* C14.  In a run from fresh state of a script with balanced, properly      *)
(* nested brackets the loop-start stack holds exactly the positions of the  *)
(* "[" enclosing the instruction pointer, outermost first; when a "]" is    *)
(* about to be executed its top is the position of the matching "["; when   *)
(* the run completes the stack is empty.                                    *)
(***************************************************************************)
C14_StackIsEnclosingLoops ==
    (Balanced(code) /\ FromFreshState)
       => /\ pc = "InterpretInternal"
                => /\ loopStartIndices = Enclosing(code, i)
                   /\ token = "]"
                        => /\ loopStartIndices # <<>>
                           /\ Top(loopStartIndices) = MatchingOpen(code, i)
          /\ pc \in {"WriteOutput", "OnComplete", "return"}
                => loopStartIndices = <<>>
          /\ (Finished /\ LastOutcome.kind = "returned")
                => loopStartIndices = <<>>

\* The inner "]" of "+[>++[-]<-]" is about to be executed for the second
\* time, after it has jumped back once, with both loop starts on the stack.
C14_Witness ==
    /\ FromFreshState
    /\ code = <<"+", "[", ">", "+", "+", "[", "-", "]", "<", "-", "]">>
    /\ pc = "InterpretInternal" /\ i = 7
    /\ steps > i
    /\ loopStartIndices = <<1, 5>>

(***************************************************************************)
(* C15.  "[" always pushes its own script position onto the loop-start      *)
(* stack and continues with the next instruction, whatever the value of the *)
(* current cell: it never skips to the matching "]", and it changes nothing *)
(* but the stack.                                                           *)
(***************************************************************************)
C15_LoopOpenAlwaysPushes ==
    [][(Running /\ token = "[")
          => /\ loopStartIndices' = Append(loopStartIndices, i)
             /\ i' = i + 1
             /\ pc' = IF i + 1 < Len(code) THEN "InterpretInternal"
                      ELSE "WriteOutput"
             /\ UNCHANGED <<memory, memoryPointer, stdInPointer, stdOut, outcome>>]_vars

\* "[" was executed on a zero cell and the first instruction of the loop
\* body is about to be executed.
C15_Witness ==
    /\ pc = "InterpretInternal"
    /\ i >= 1 /\ steps = i
    /\ code[i] = "[" /\ token = "+"
    /\ CurrentCell = Num(0)
    /\ loopStartIndices # <<>> /\ Top(loopStartIndices) = i - 1

(***************************************************************************)
(* C16.  During a call of BFInterpreter.Interpret() on a BFInterpreterState *)
(* or of BF() the tape has exactly MemoryWords cells, each holding an       *)
(* integer: no instruction changes its length or stores a non-integer; and  *)
(* every cell read or written by "+", "-", ".", "," or "]" is at an index   *)
(* in 0 .. MemoryWords - 1.                                                 *)
(***************************************************************************)
C16_TapeFixedLength ==
    (impl \in {"BFInterpreterState", "BF"} /\ InCall /\ calls >= 1)
       => /\ Length(memory) = options.MemoryWords
          /\ DOMAIN memory = 0 .. (options.MemoryWords - 1)
          /\ \A k \in DOMAIN memory : IsNum(memory[k])
          /\ (Running /\ token \in {"+", "-", ".", ",", "]"})
                => memoryPointer \in 0 .. (options.MemoryWords - 1)

(***************************************************************************)
(* C17.  A script that contains a "[" with no matching "]" and whose run    *)
(* reaches the end of the script without a "]" executed on an empty stack   *)
(* finishes with a non-empty loop-start stack; the call completes normally  *)
(* and returns its output.                                                  *)
(***************************************************************************)
HasUnmatchedOpen(c) ==
    \E p \in 0 .. (Len(c) - 1) :
        /\ c[p + 1] = "["
        /\ \A k \in (p + 1) .. Len(c) : Depth(c, k) > Depth(c, p)

\* The loop of the current call has run off the end of the script.
ReachedEnd == calls >= 1 /\ pc # "InterpretInternal" /\ i = Len(code)

C17_UnclosedLoopReturns ==
    (HasUnmatchedOpen(code) /\ ReachedEnd /\ ~closedOnEmpty)
       => /\ loopStartIndices # <<>>
          /\ pc = "idle" => (Len(outcome) = calls /\ LastOutcome = Returned(stdOut))

\* "[[]" and the like: a call has returned its output after popping a
\* closed loop, with the unclosed "[" still on the stack.
C17_Witness ==
    /\ impl = "BFInterpreterState"
    /\ HasUnmatchedOpen(code) /\ ~closedOnEmpty
    /\ Finished /\ ReachedEnd
    /\ \E k \in 1 .. Len(code) : code[k] = "]"
    /\ LastOutcome = Returned(stdOut)
    /\ loopStartIndices # <<>>

(***************************************************************************)
(* C18.  The input cursor is 0 when a run starts, increases by exactly 1 on *)
(* every executed "," (also when the input is exhausted) and is changed by  *)
(* no other instruction: throughout a run it equals the number of ","       *)
(* executed so far in that run, and it never decreases.                     *)
(***************************************************************************)
C18_CursorCountsReads ==
    [][/\ calls' = calls + 1 => stdInPointer' = 0
       /\ (Running /\ token = ",") => stdInPointer' = stdInPointer + 1
       /\ (Running /\ token # ",") => stdInPointer' = stdInPointer
       /\ calls' = calls => stdInPointer' >= stdInPointer
       /\ pc' # "idle" => stdInPointer' = reads']_vars

(***************************************************************************)
(* C19.  Only "]" on a non-zero cell can move the instruction pointer       *)
(* backwards: every other instruction either fails the run or advances the  *)
(* pointer by exactly 1.  For a script without "]" every step advances it   *)
(* by 1, each instruction is executed at most once, and the run terminates: *)
(* it returns its output or raises an error.                                *)
(***************************************************************************)
NoLoopClose(c) == \A k \in 1 .. Len(c) : c[k] # "]"

JumpsBack == Running /\ token = "]" /\ CurrentCell # Num(0)

C19_OnlyLoopCloseJumpsBack ==
    /\ [][(Running /\ ~JumpsBack) => (i' = i + 1 \/ pc' = "idle")]_vars
    /\ [][i' < i => (JumpsBack \/ calls' = calls + 1)]_vars
    /\ []((NoLoopClose(code) /\ InCall /\ calls >= 1)
             => (steps = i /\ i <= Len(code)))
    /\ (NoLoopClose(code) /\ pc # "idle")
          ~> (pc = "idle" /\ Len(outcome) = calls)

\* A script with a "[" and no "]" has returned after one step per
\* instruction.
C19_Witness ==
    /\ NoLoopClose(code) /\ Len(code) >= 2
    /\ \E k \in 1 .. Len(code) : code[k] = "["
    /\ Finished /\ LastOutcome.kind = "returned"
    /\ steps = Len(code) /\ i = Len(code)

(***************************************************************************)
(* C20.  Vocabulary: the run of BFInterpreter.InterpretInternal on a fresh  *)
(* BFInterpreterState, as the loop record after k iterations, and the       *)
(* limits the claim assumes of a run.                                       *)
(***************************************************************************)
EightOnly(c) == \A k \in 1 .. Len(c) : c[k] \in Instructions

InterpreterEntry == LoopEntry(code, BFInterpreterState(options.MemoryWords))

InterpreterRun(k) ==
    InterpretInternal("BFInterpreterState", code, options.StdIn,
                      options.MemoryWords, InterpreterEntry, k)

\* The data pointer is on the tape and no "," has read past the input.
WithinLimits(L) ==
    /\ L.state.memoryPointer \in 0 .. (options.MemoryWords - 1)
    /\ L.state.stdInPointer <= Len(options.StdIn)

\* ... in L and in each of the next fuel records of the run.
RECURSIVE StaysWithinLimits(_, _)
StaysWithinLimits(L, fuel) ==
    /\ WithinLimits(L)
    /\ \/ fuel = 0
       \/ L.status # "loop"
       \/ StaysWithinLimits(Iteration("BFInterpreterState", code, options.StdIn,
                                      options.MemoryWords, L), fuel - 1)

(***************************************************************************)
(* C20.  For a script of the eight instructions with balanced brackets,     *)
(* as long as the data pointer has stayed within 0 .. MemoryWords - 1 and   *)
(* no "," has read past the end of the input, BF(code, {stdin, memory}) of  *)
(* bf.js after k loop iterations has the instruction pointer, data pointer, *)
(* tape, input cursor, loop-start stack and output that                     *)
(* BFInterpreter.Interpret() has after k iterations; neither has failed,    *)
(* they leave the loop together and return the same string.                 *)
(***************************************************************************)
C20_InterpretersAgree ==
    (/\ impl = "BF" /\ calls >= 1
     /\ EightOnly(code) /\ Balanced(code)
     /\ StaysWithinLimits(InterpreterEntry, steps))
       => LET T == InterpreterRun(steps)
          IN /\ T.state = State
             /\ T.i = i
             /\ T.stdOut = stdOut
             /\ T.status # "thrown"
             /\ (T.status = "loop") <=> (pc = "InterpretInternal")
             /\ pc = "idle" => (Len(outcome) = calls
                                /\ LastOutcome = Returned(T.stdOut))

\* BF() has returned the two characters it read, as Interpret() does.
C20_Witness ==
    /\ impl = "BF" /\ Finished
    /\ code = <<",", ".", ",", ".">> /\ options.StdIn = <<65, 0>>
    /\ StaysWithinLimits(InterpreterEntry, steps)
    /\ InterpreterRun(steps).status = "done"
    /\ LastOutcome = Returned(<<65, 0>>)

\* BF() has left the loop of "++[>++<-]>." in the state Interpret() leaves
\* it in.
C20_WitnessLoop ==
    /\ impl = "BF" /\ pc = "WriteOutput"
    /\ code = DoublingScript(2)
    /\ StaysWithinLimits(InterpreterEntry, steps)
    /\ InterpreterRun(steps).state = State

====
